---- MODULE Spec2Model ----
(***************************************************************************)
(* A model of the oberon-compiler front end: the finite-state lexer of     *)
(* src/src/lexer.rs over a UTF-8 text, and the callers that drive it.      *)
(*                                                                         *)
(* The text is a sequence of bytes (0..255); byte offset p of the Rust     *)
(* string is element p+1 of the sequence.  Characters are Unicode scalar   *)
(* values decoded from the bytes.  A 64-bit integer value is carried as    *)
(* its canonical decimal digit sequence, because the values that matter    *)
(* (around 2^63) do not fit the model checker's integers.                  *)
(***************************************************************************)
EXTENDS Integers, Sequences, FiniteSets, TLC

VARIABLES input, pos, token_start, state, result, before, tokens, calls, out, pc,
          file, cli, disk, line_starts, report, stderr, status, probe

vars == <<input, pos, token_start, state, result, before, tokens, calls, out, pc,
          file, cli, disk, line_starts, report, stderr, status, probe>>

lexerVars == <<pos, token_start, state, result, before, tokens, calls>>

processVars == <<file, cli, disk, report, stderr, status>>

(***************************************************************************)
(* Bounds of the model.                                                    *)
(***************************************************************************)
MaxPieces == 3
MaxCalls == 10
MaxPast == 2
MaxDiags == 2
MaxFilePieces == 2

(***************************************************************************)
(* Characters and their classes (Rust char methods used by the lexer).     *)
(***************************************************************************)
None == -1

is_ascii_digit(ch) == ch >= 48 /\ ch <= 57

is_ascii_alphabetic(ch) == (ch >= 65 /\ ch <= 90) \/ (ch >= 97 /\ ch <= 122)

is_ascii_whitespace(ch) == ch \in {32, 9, 10, 12, 13}

is_ident_start(ch) == is_ascii_alphabetic(ch) \/ ch = 95

is_ident_continue(ch) == is_ident_start(ch) \/ is_ascii_digit(ch)

len_utf8(ch) == IF ch < 128 THEN 1 ELSE IF ch < 2048 THEN 2 ELSE IF ch < 65536 THEN 3 ELSE 4

to_ascii_lowercase(b) == IF b >= 65 /\ b <= 90 THEN b + 32 ELSE b

eq_ignore_ascii_case(a, b) ==
    /\ Len(a) = Len(b)
    /\ \A i \in 1..Len(a) : to_ascii_lowercase(a[i]) = to_ascii_lowercase(b[i])

(***************************************************************************)
(* Span and slices.                                                        *)
(***************************************************************************)
Span(s, e) == [start |-> s, end |-> e]

Slice(text, s, e) == SubSeq(text, s + 1, e)

(***************************************************************************)
(* Lexer helpers.                                                          *)
(***************************************************************************)
peek_char(text, p) ==
    IF p >= Len(text) THEN None
    ELSE LET b0 == text[p + 1] IN
         IF b0 < 128 THEN b0
         ELSE IF b0 < 224 THEN (b0 - 192) * 64 + (text[p + 2] - 128)
         ELSE IF b0 < 240 THEN (b0 - 224) * 4096 + (text[p + 2] - 128) * 64 + (text[p + 3] - 128)
         ELSE (b0 - 240) * 262144 + (text[p + 2] - 128) * 4096
              + (text[p + 3] - 128) * 64 + (text[p + 4] - 128)

bump_char(text, p) ==
    LET ch == peek_char(text, p) IN IF ch = None THEN p ELSE p + len_utf8(ch)

RECURSIVE skip_whitespace_Unicode(_, _)
skip_whitespace_Unicode(text, p) ==
    LET ch == peek_char(text, p) IN
    IF ch # None /\ (is_ascii_whitespace(ch) \/ ch = 11 \/ ch = 160)
    THEN skip_whitespace_Unicode(text, bump_char(text, p))
    ELSE p

RECURSIVE skip_whitespace(_, _)
skip_whitespace(text, p) ==
    LET ch == peek_char(text, p) IN
    IF ch # None /\ is_ascii_whitespace(ch)
    THEN skip_whitespace(text, bump_char(text, p))
    ELSE p

consume_digits_One(text, p) ==
    LET ch == peek_char(text, p) IN
    IF ch # None /\ is_ascii_digit(ch) THEN bump_char(text, p) ELSE p

RECURSIVE consume_digits(_, _)
consume_digits(text, p) ==
    LET ch == peek_char(text, p) IN
    IF ch # None /\ is_ascii_digit(ch)
    THEN consume_digits(text, bump_char(text, p))
    ELSE p

RECURSIVE consume_ident(_, _)
consume_ident(text, p) ==
    LET ch == peek_char(text, p) IN
    IF ch # None /\ is_ident_continue(ch)
    THEN consume_ident(text, bump_char(text, p))
    ELSE p

(***************************************************************************)
(* str::parse::<i64> on a slice of ASCII digits.  A value is a canonical   *)
(* decimal digit sequence (no leading zero, <<0>> for zero).               *)
(***************************************************************************)
I64Max == <<9, 2, 2, 3, 3, 7, 2, 0, 3, 6, 8, 5, 4, 7, 7, 5, 8, 0, 7>>

RECURSIVE DecLess(_, _)
DecLess(a, b) ==
    IF Len(a) # Len(b) THEN Len(a) < Len(b)
    ELSE IF a = <<>> THEN FALSE
    ELSE IF Head(a) # Head(b) THEN Head(a) < Head(b)
    ELSE DecLess(Tail(a), Tail(b))

DecLeq(a, b) == a = b \/ DecLess(a, b)

MulAdd10(acc, d) == IF acc = <<0>> THEN <<d>> ELSE Append(acc, d)

Overflow == <<-1>>

RECURSIVE parse_digits(_, _)
parse_digits(acc, text) ==
    IF text = <<>> THEN acc
    ELSE LET next == MulAdd10(acc, Head(text) - 48) IN
         IF DecLeq(next, I64Max) THEN parse_digits(next, Tail(text)) ELSE Overflow

parse_i64_Saturating(text) ==
    IF text = <<>> THEN Overflow
    ELSE LET v == parse_digits(<<0>>, text) IN IF v = Overflow THEN I64Max ELSE v

parse_i64(text) == IF text = <<>> THEN Overflow ELSE parse_digits(<<0>>, text)

(***************************************************************************)
(* Values returned by next_token.                                          *)
(***************************************************************************)
Ok(kind, payload, span) == [tag |-> "Ok", kind |-> kind, payload |-> payload, span |-> span]

Err(kind, payload, span) == [tag |-> "Err", kind |-> kind, payload |-> payload, span |-> span]

NoResult == [tag |-> "None", kind |-> "None", payload |-> <<>>, span |-> Span(0, 0)]

Lexer(p, ts, st) == [pos |-> p, token_start |-> ts, state |-> st]

Continue(lx) == [returned |-> FALSE, lexer |-> lx, value |-> NoResult]

Return(lx, v) == [returned |-> TRUE, lexer |-> lx, value |-> v]

(***************************************************************************)
(* The four arms of the match in next_token.                               *)
(***************************************************************************)
StartArm_EofAdvances(text, lx) ==
    LET p == skip_whitespace(text, lx.pos)
        ch == peek_char(text, p)
    IN  IF ch = None THEN Return(Lexer(p + 1, p, "Start"), Ok("Eof", <<>>, Span(p, p)))
        ELSE IF is_ascii_digit(ch) THEN Continue(Lexer(p, p, "Number"))
        ELSE IF is_ident_start(ch) THEN Continue(Lexer(p, p, "Ident"))
        ELSE IF ch = 60 THEN Continue(Lexer(p, p, "Lt"))
        ELSE Return(Lexer(bump_char(text, p), p, "Start"),
                    Err("UnexpectedCharacter", <<ch>>, Span(p, bump_char(text, p))))

StartArm(text, lx) ==
    LET p == skip_whitespace(text, lx.pos)
        ch == peek_char(text, p)
    IN  IF ch = None THEN Return(Lexer(p, p, "Start"), Ok("Eof", <<>>, Span(p, p)))
        ELSE IF is_ascii_digit(ch) THEN Continue(Lexer(p, p, "Number"))
        ELSE IF is_ident_start(ch) THEN Continue(Lexer(p, p, "Ident"))
        ELSE IF ch = 60 THEN Continue(Lexer(p, p, "Lt"))
        ELSE Return(Lexer(bump_char(text, p), p, "Start"),
                    Err("UnexpectedCharacter", <<ch>>, Span(p, bump_char(text, p))))

NumberArm_KeepsCursor(text, lx) ==
    LET p == consume_digits(text, lx.pos)
        span == Span(lx.token_start, p)
        value == parse_i64(Slice(text, span.start, span.end))
    IN  IF value = Overflow
        THEN Return(Lexer(p, lx.token_start, "Number"), Err("InvalidIntegerLiteral", <<>>, span))
        ELSE Return(Lexer(lx.pos, lx.token_start, "Start"), Ok("Number", value, span))

NumberArm(text, lx) ==
    LET p == consume_digits(text, lx.pos)
        span == Span(lx.token_start, p)
        value == parse_i64(Slice(text, span.start, span.end))
    IN  IF value = Overflow
        THEN Return(Lexer(p, lx.token_start, "Number"), Err("InvalidIntegerLiteral", <<>>, span))
        ELSE Return(Lexer(p, lx.token_start, "Start"), Ok("Number", value, span))

IdentArm_PrefixKeyword(text, lx) ==
    LET p == consume_ident(text, lx.pos)
        span == Span(lx.token_start, p)
        txt == Slice(text, span.start, span.end)
    IN  IF Len(txt) >= 2 /\ eq_ignore_ascii_case(SubSeq(txt, 1, 2), <<73, 70>>)
        THEN Return(Lexer(lx.token_start + 2, lx.token_start, "Start"),
                    Ok("KeywordIf", <<>>, Span(lx.token_start, lx.token_start + 2)))
        ELSE Return(Lexer(p, lx.token_start, "Start"), Ok("Identifier", txt, span))

IdentArm_KeepsCursor(text, lx) ==
    LET p == consume_ident(text, lx.pos)
        span == Span(lx.token_start, p)
        txt == Slice(text, span.start, span.end)
    IN  IF eq_ignore_ascii_case(txt, <<73, 70>>)
        THEN Return(Lexer(lx.token_start, lx.token_start, "Start"), Ok("KeywordIf", <<>>, span))
        ELSE Return(Lexer(lx.token_start, lx.token_start, "Start"), Ok("Identifier", txt, span))

IdentArm(text, lx) ==
    LET p == consume_ident(text, lx.pos)
        span == Span(lx.token_start, p)
        txt == Slice(text, span.start, span.end)
    IN  IF eq_ignore_ascii_case(txt, <<73, 70>>)
        THEN Return(Lexer(p, lx.token_start, "Start"), Ok("KeywordIf", <<>>, span))
        ELSE Return(Lexer(p, lx.token_start, "Start"), Ok("Identifier", txt, span))

LtArm_NoBump(text, lx) ==
    LET p1 == lx.pos IN
    IF peek_char(text, p1) = 61
    THEN Return(Lexer(bump_char(text, p1), lx.token_start, "Start"),
                Ok("LessEqual", <<>>, Span(lx.token_start, bump_char(text, p1))))
    ELSE Return(Lexer(p1, lx.token_start, "Start"),
                Ok("Less", <<>>, Span(lx.token_start, p1)))

LtArm(text, lx) ==
    LET p1 == bump_char(text, lx.pos) IN
    IF peek_char(text, p1) = 61
    THEN Return(Lexer(bump_char(text, p1), lx.token_start, "Start"),
                Ok("LessEqual", <<>>, Span(lx.token_start, bump_char(text, p1))))
    ELSE Return(Lexer(p1, lx.token_start, "Start"),
                Ok("Less", <<>>, Span(lx.token_start, p1)))

RECURSIVE next_token(_, _)
next_token(text, lx) ==
    LET r == CASE lx.state = "Start" -> StartArm(text, lx)
               [] lx.state = "Number" -> NumberArm(text, lx)
               [] lx.state = "Ident" -> IdentArm(text, lx)
               [] lx.state = "Lt" -> LtArm(text, lx)
    IN  IF r.returned THEN r ELSE next_token(text, r.lexer)

(***************************************************************************)
(* SourceFile (src/src/source.rs): UTF-8 decoding, the line-start table    *)
(* and the position queries.  An Option is a sequence of length 0 or 1.    *)
(***************************************************************************)
Some(x) == <<x>>

Nothing == <<>>

IsContinuation(b) == b >= 128 /\ b <= 191

\* String::from_utf8: TRUE when bytes from offset i on are well-formed UTF-8.
RECURSIVE from_utf8(_, _)
from_utf8(bytes, i) ==
    IF i >= Len(bytes) THEN TRUE
    ELSE LET first == bytes[i + 1]
             has(k) == i + k < Len(bytes)
             at(k) == bytes[i + k + 1]
         IN  IF first < 128 THEN from_utf8(bytes, i + 1)
             ELSE IF first >= 194 /\ first <= 223
                  THEN has(1) /\ IsContinuation(at(1)) /\ from_utf8(bytes, i + 2)
             ELSE IF first >= 224 /\ first <= 239
                  THEN /\ has(2)
                       /\ \/ first = 224 /\ at(1) >= 160 /\ at(1) <= 191
                          \/ first >= 225 /\ first <= 236 /\ IsContinuation(at(1))
                          \/ first = 237 /\ at(1) >= 128 /\ at(1) <= 159
                          \/ first >= 238 /\ IsContinuation(at(1))
                       /\ IsContinuation(at(2))
                       /\ from_utf8(bytes, i + 3)
             ELSE IF first >= 240 /\ first <= 244
                  THEN /\ has(3)
                       /\ \/ first = 240 /\ at(1) >= 144 /\ at(1) <= 191
                          \/ first >= 241 /\ first <= 243 /\ IsContinuation(at(1))
                          \/ first = 244 /\ at(1) >= 128 /\ at(1) <= 143
                       /\ IsContinuation(at(2))
                       /\ IsContinuation(at(3))
                       /\ from_utf8(bytes, i + 4)
             ELSE FALSE

RECURSIVE line_starts_from_AtNewline(_, _, _)
line_starts_from_AtNewline(s, i, starts) ==
    IF i >= Len(s) THEN starts
    ELSE line_starts_from_AtNewline(s, i + 1, IF s[i + 1] = 10 THEN Append(starts, i) ELSE starts)

RECURSIVE line_starts_from(_, _, _)
line_starts_from(s, i, starts) ==
    IF i >= Len(s) THEN starts
    ELSE line_starts_from(s, i + 1, IF s[i + 1] = 10 THEN Append(starts, i + 1) ELSE starts)

compute_line_starts(s) == line_starts_from(s, 0, <<0>>)

span_whole(text) == Span(0, Len(text))

saturating_sub(a, b) == IF a >= b THEN a - b ELSE 0

\* slice::binary_search: [found |-> TRUE, index] for Ok(index), else Err(index).
RECURSIVE binary_search_loop(_, _, _, _)
binary_search_loop(v, x, left, right) ==
    IF left >= right THEN [found |-> FALSE, index |-> left]
    ELSE LET mid == left + ((right - left) \div 2) IN
         IF v[mid + 1] = x THEN [found |-> TRUE, index |-> mid]
         ELSE IF v[mid + 1] < x THEN binary_search_loop(v, x, mid + 1, right)
         ELSE binary_search_loop(v, x, left, mid)

binary_search(v, x) == binary_search_loop(v, x, 0, Len(v))

line_col_NoStepBack(starts, byte_offset) ==
    LET r == binary_search(starts, byte_offset)
        line == r.index
        line_start == IF line < Len(starts) THEN starts[line + 1] ELSE 0
        col0 == saturating_sub(byte_offset, line_start)
    IN  <<line + 1, col0 + 1>>

line_col(starts, byte_offset) ==
    LET r == binary_search(starts, byte_offset)
        line == IF r.found THEN r.index ELSE saturating_sub(r.index, 1)
        line_start == IF line < Len(starts) THEN starts[line + 1] ELSE 0
        col0 == saturating_sub(byte_offset, line_start)
    IN  <<line + 1, col0 + 1>>

is_char_boundary(text, i) ==
    i = 0 \/ i = Len(text) \/ (i < Len(text) /\ ~IsContinuation(text[i + 1]))

\* str::get(start..end)
str_get(text, s, e) ==
    IF s <= e /\ e <= Len(text) /\ is_char_boundary(text, s) /\ is_char_boundary(text, e)
    THEN Some(Slice(text, s, e))
    ELSE Nothing

line_text_DropsNewline(text, starts, line_1based) ==
    IF line_1based = 0 THEN Nothing
    ELSE LET line_idx == line_1based - 1 IN
         IF line_idx >= Len(starts) THEN Nothing
         ELSE LET start == starts[line_idx + 1]
                  end == IF line_idx + 1 < Len(starts) THEN starts[line_idx + 2] - 1 ELSE Len(text)
                  got == str_get(text, start, end)
              IN  Some(IF got = Nothing THEN <<>> ELSE got[1])

\* SourceFile::load: the decoded text and its line starts, or a CompilerError.
load(path, f) ==
    IF ~f.exists THEN [ok |-> FALSE, error |-> [kind |-> "Io", path |-> path]]
    ELSE IF ~from_utf8(f.bytes, 0) THEN [ok |-> FALSE, error |-> [kind |-> "Encoding", path |-> path]]
    ELSE [ok |-> TRUE, path |-> path, text |-> f.bytes, line_starts |-> compute_line_starts(f.bytes)]

line_text_NoMinusOne(text, starts, line_1based) ==
    IF line_1based = 0 THEN Nothing
    ELSE LET line_idx == line_1based IN
         IF line_idx >= Len(starts) THEN Nothing
         ELSE LET start == starts[line_idx + 1]
                  end == IF line_idx + 1 < Len(starts) THEN starts[line_idx + 2] ELSE Len(text)
                  got == str_get(text, start, end)
              IN  Some(IF got = Nothing THEN <<>> ELSE got[1])

line_text(text, starts, line_1based) ==
    IF line_1based = 0 THEN Nothing
    ELSE LET line_idx == line_1based - 1 IN
         IF line_idx >= Len(starts) THEN Nothing
         ELSE LET start == starts[line_idx + 1]
                  end == IF line_idx + 1 < Len(starts) THEN starts[line_idx + 2] ELSE Len(text)
                  got == str_get(text, start, end)
              IN  Some(IF got = Nothing THEN <<>> ELSE got[1])

(***************************************************************************)
(* Texts the program prints, as bytes.                                     *)
(***************************************************************************)
StrError == <<101, 114, 114, 111, 114>>

StrWarning == <<119, 97, 114, 110, 105, 110, 103>>

StrNote == <<110, 111, 116, 101>>

StrColonSpace == <<58, 32>>

StrArrow == <<32, 32, 45, 45, 62, 32>>

StrGutter == <<32, 32, 32, 124>>

StrBar == <<32, 124, 32>>

StrGutterSpace == <<32, 32, 32, 124, 32>>

StrNotePrefix == <<110, 111, 116, 101, 58, 32>>

StrErrorPrefix == <<101, 114, 114, 111, 114, 58, 32>>

StrIoError == <<73, 47, 79, 32, 101, 114, 114, 111, 114, 32, 114, 101, 97, 100, 105, 110, 103, 47, 119, 114, 105, 116, 105, 110, 103, 32, 102, 105, 108, 101, 58, 32>>

StrEncodingError == <<83, 111, 117, 114, 99, 101, 32, 102, 105, 108, 101, 32, 105, 115, 32, 110, 111, 116, 32, 118, 97, 108, 105, 100, 32, 85, 84, 70, 45, 56, 58, 32>>

StrEmptyInput == <<73, 110, 112, 117, 116, 32, 102, 105, 108, 101, 32, 105, 115, 32, 101, 109, 112, 116, 121, 46>>

StrEmptyNote == <<80, 114, 111, 118, 105, 100, 101, 32, 97, 110, 32, 79, 98, 101, 114, 111, 110, 32, 109, 111, 100, 117, 108, 101, 32, 97, 110, 100, 32, 116, 114, 121, 32, 97, 103, 97, 105, 110, 46>>

StrUnexpected == <<85, 110, 101, 120, 112, 101, 99, 116, 101, 100, 32, 99, 104, 97, 114, 97, 99, 116, 101, 114, 58, 32>>

StrInvalidInteger == <<73, 110, 118, 97, 108, 105, 100, 32, 105, 110, 116, 101, 103, 101, 114, 32, 108, 105, 116, 101, 114, 97, 108, 58, 32, 110, 117, 109, 98, 101, 114, 32, 116, 111, 111, 32, 108, 97, 114, 103, 101, 32, 116, 111, 32, 102, 105, 116, 32, 105, 110, 32, 116, 97, 114, 103, 101, 116, 32, 116, 121, 112, 101>>

StrBin == <<98, 105, 110>>

(***************************************************************************)
(* Diagnostic, CompilerError and Report (src/src/diagnostics.rs,           *)
(* src/src/error.rs) and the rendering of a Report.  The output is a       *)
(* sequence of lines, one per writeln!, each a sequence of bytes.          *)
(***************************************************************************)
Path(stem, ext) == [stem |-> stem, ext |-> ext]

\* Path::display
display(path) == IF path.ext = <<>> THEN path.stem ELSE path.stem \o <<46>> \o path.ext

SourceFile(path, text, starts) == [path |-> path, text |-> text, line_starts |-> starts]

Diagnostic(severity, message, span, note) ==
    [severity |-> severity, message |-> message, span |-> span, note |-> note]

\* The #[error(...)] text of a CompilerError.
CompilerError_display(e) ==
    IF e.kind = "Io" THEN StrIoError \o display(e.path) ELSE StrEncodingError \o display(e.path)

\* The message of a LexError; the character of "Unexpected character" is
\* carried as its scalar value in place of its Debug text.
LexError_message(e) ==
    IF e.kind = "UnexpectedCharacter" THEN StrUnexpected \o e.payload ELSE StrInvalidInteger

Report_new_SetsFatal(source, diagnostics) ==
    [source |-> Some(source), diagnostics |-> diagnostics,
     fatal |-> Some([kind |-> "Io", path |-> source.path])]

Report_new(source, diagnostics) ==
    [source |-> Some(source), diagnostics |-> diagnostics, fatal |-> Nothing]

Report_from(err) == [source |-> Nothing, diagnostics |-> <<>>, fatal |-> Some(err)]

severity_label(sev) ==
    CASE sev = "Error" -> StrError
      [] sev = "Warning" -> StrWarning
      [] sev = "Note" -> StrNote

RECURSIVE to_decimal(_)
to_decimal(n) == IF n < 10 THEN <<48 + n>> ELSE Append(to_decimal(n \div 10), 48 + (n % 10))

\* {:>width$}
RECURSIVE pad_left(_, _)
pad_left(txt, width) == IF Len(txt) >= width THEN txt ELSE pad_left(<<32>> \o txt, width)

RECURSIVE trim_end_matches(_, _)
trim_end_matches(txt, b) ==
    IF txt # <<>> /\ txt[Len(txt)] = b THEN trim_end_matches(SubSeq(txt, 1, Len(txt) - 1), b) ELSE txt

write_span_block_CaretAtCol(src, span) ==
    LET lc == line_col(src.line_starts, span.start)
        lt == line_text(src.text, src.line_starts, lc[1])
        txt == IF lt = Nothing THEN <<>> ELSE lt[1]
    IN  << StrArrow \o display(src.path) \o <<58>> \o to_decimal(lc[1]) \o <<58>> \o to_decimal(lc[2]),
           StrGutter,
           pad_left(to_decimal(lc[1]), 3) \o StrBar \o trim_end_matches(txt, 10),
           StrGutterSpace \o pad_left(<<>>, lc[2]) \o <<94>> >>

write_span_block(src, span) ==
    LET lc == line_col(src.line_starts, span.start)
        lt == line_text(src.text, src.line_starts, lc[1])
        txt == IF lt = Nothing THEN <<>> ELSE lt[1]
    IN  << StrArrow \o display(src.path) \o <<58>> \o to_decimal(lc[1]) \o <<58>> \o to_decimal(lc[2]),
           StrGutter,
           pad_left(to_decimal(lc[1]), 3) \o StrBar \o trim_end_matches(txt, 10),
           StrGutterSpace \o pad_left(<<>>, saturating_sub(lc[2], 1)) \o <<94>> >>

fmt_diagnostic(src, d) ==
    << severity_label(d.severity) \o StrColonSpace \o d.message >>
    \o (IF d.span # Nothing THEN write_span_block(src, d.span[1]) ELSE <<>>)
    \o (IF d.note # Nothing THEN << StrNotePrefix \o d.note[1] >> ELSE <<>>)
    \o << <<>> >>

RECURSIVE fmt_diagnostics(_, _)
fmt_diagnostics(src, ds) ==
    IF ds = <<>> THEN <<>> ELSE fmt_diagnostic(src, Head(ds)) \o fmt_diagnostics(src, Tail(ds))

fmt_fatal_WithBlock(r) ==
    << StrErrorPrefix \o CompilerError_display(r.fatal[1]), StrGutter >>

fmt_fatal(r) == << StrErrorPrefix \o CompilerError_display(r.fatal[1]) >>

\* impl fmt::Display for Report
fmt(r) ==
    IF r.fatal # Nothing THEN fmt_fatal(r)
    ELSE IF r.source = Nothing
         THEN [i \in 1..Len(r.diagnostics) |->
                  severity_label(r.diagnostics[i].severity) \o StrColonSpace \o r.diagnostics[i].message]
         ELSE fmt_diagnostics(r.source[1], r.diagnostics)

\* eprintln!("{report}")
eprintln(r) == fmt(r) \o << <<>> >>

(***************************************************************************)
(* Input texts.  Every text is valid UTF-8: a concatenation of at most     *)
(* MaxPieces pieces, each a whole character or a run of digits, or one of  *)
(* the texts the tests and the documentation name.                         *)
(***************************************************************************)
BigMax == <<57, 50, 50, 51, 51, 55, 50, 48, 51, 54, 56, 53, 52, 55, 55, 53, 56, 48, 55>>

BigOver == <<57, 50, 50, 51, 51, 55, 50, 48, 51, 54, 56, 53, 52, 55, 55, 53, 56, 48, 56>>

Pieces ==
    { <<73>>, <<70>>, <<102>>, <<95>>, <<49>>, <<60>>, <<61>>, <<32>>, <<10>>, <<11>>, <<64>>,
      <<194, 160>>, <<226, 130, 172>>, BigMax, BigOver }

Golden == <<73, 70, 32, 97, 60, 61, 49, 48, 13, 10, 73, 70, 32, 98, 60, 50>>

GoldenTab == <<73, 70, 9, 65, 60, 61, 49, 48, 13, 10, 73, 70, 32, 66, 60, 50>>

TwelveA == <<49, 50, 97>>

ALessTen == <<97, 60, 49, 48>>

Ifx == <<73, 70, 88>>

LowerIf == <<105, 102>>

MixedIf == <<105, 70>>

LtSpaceEq == <<60, 32, 61>>

TabX == <<73, 70, 9, 88>>

CrLfA == <<73, 70, 13, 10, 65>>

Spaced == <<73, 70, 32, 32, 32, 97, 32, 32, 60, 61, 32, 32, 32, 49, 48>>

Hello == <<77, 79, 68, 85, 76, 69, 32, 72, 101, 108, 108, 111, 59, 32, 69, 78, 68, 32, 72, 101, 108, 108, 111, 46, 10>>

LeadingZeros == <<48, 48, 48, 48, 57, 50, 50, 51, 51, 55, 50, 48, 51, 54, 56, 53, 52, 55, 55, 53, 56, 48, 55>>

TwentyNines == <<57, 57, 57, 57, 57, 57, 57, 57, 57, 57, 57, 57, 57, 57, 57, 57, 57, 57, 57, 57>>

BigThenAt == <<57, 50, 50, 51, 51, 55, 50, 48, 51, 54, 56, 53, 52, 55, 55, 53, 56, 48, 56, 64>>

BigThenLt == <<57, 50, 50, 51, 51, 55, 50, 48, 51, 54, 56, 53, 52, 55, 55, 53, 56, 48, 56, 60, 61>>

BigSpaceOne == <<57, 50, 50, 51, 51, 55, 50, 48, 51, 54, 56, 53, 52, 55, 55, 53, 56, 48, 56, 32, 49>>

VtOnly == <<11>>

NbspOnly == <<194, 160>>

FormFeedX == <<12, 88>>

KeywordMix == <<105, 70, 32, 73, 70, 88, 32, 73, 102>>

Atoms == <<73, 64, 102, 32, 64>>

Emoji == <<97, 240, 159, 152, 128, 98>>

NamedInputs ==
    { Golden,
      GoldenTab,
      TwelveA,
      ALessTen,
      Ifx,
      LowerIf,
      MixedIf,
      LtSpaceEq,
      TabX,
      CrLfA,
      Spaced,
      Hello,
      LeadingZeros,
      TwentyNines,
      BigThenAt,
      BigThenLt,
      BigSpaceOne,
      VtOnly,
      NbspOnly,
      FormFeedX,
      KeywordMix,
      Atoms,
      Emoji }

RECURSIVE Flatten(_)
Flatten(ss) == IF ss = <<>> THEN <<>> ELSE Head(ss) \o Flatten(Tail(ss))

Inputs ==
    NamedInputs \cup UNION { { Flatten(ss) : ss \in [1..n -> Pieces] } : n \in 0..MaxPieces }

(***************************************************************************)
(* The files a run can find at cli.input: absent, or any bytes, well       *)
(* formed UTF-8 or not.                                                    *)
(***************************************************************************)
InvalidUtf8 ==
    { <<255, 254, 255>>, <<128>>, <<195>>, <<73, 192, 128>>, <<237, 160, 128>>,
      <<226, 130>>, <<244, 144, 128, 128>>, <<10, 240, 159, 152>> }

Absent == [exists |-> FALSE, bytes |-> <<>>]

Present(bytes) == [exists |-> TRUE, bytes |-> bytes]

Files == {Absent} \cup { Present(b) : b \in Inputs \cup InvalidUtf8 }

InputPath == Path(<<72, 101, 108, 108, 111>>, <<77, 111, 100>>)

CustomPath == Path(<<99, 117, 115, 116, 111, 109, 95, 111, 117, 116, 112, 117, 116>>, <<98, 105, 110>>)

OutputPaths == { Path(InputPath.stem, StrBin), CustomPath }

NoProbe == [fn |-> "None", arg |-> 0, ret |-> <<>>]

\* The variables of the process around the lexer, when no run is modelled.
Idle ==
    /\ file = Present(input)
    /\ cli = [input |-> InputPath, output |-> Nothing]
    /\ disk = [p \in OutputPaths |-> Absent]
    /\ report = Nothing
    /\ stderr = <<>>
    /\ status = "running"
    /\ probe = NoProbe

(***************************************************************************)
(* Lexer::new, and a caller that calls next_token again and again,        *)
(* whatever the previous call returned.                                    *)
(***************************************************************************)
Init ==
    /\ input \in Inputs
    /\ pos = 0
    /\ token_start = 0
    /\ state = "Start"
    /\ result = NoResult
    /\ before = Lexer(0, 0, "Start")
    /\ tokens = <<>>
    /\ calls = 0
    /\ out = <<>>
    /\ pc = "caller"
    /\ line_starts = compute_line_starts(input)
    /\ Idle

NextToken ==
    /\ pc = "caller"
    /\ calls < MaxCalls
    /\ LET r == next_token(input, Lexer(pos, token_start, state)) IN
       /\ pos' = r.lexer.pos
       /\ token_start' = r.lexer.token_start
       /\ state' = r.lexer.state
       /\ result' = r.value
       /\ tokens' = IF r.value.tag = "Ok" THEN Append(tokens, r.value) ELSE tokens
    /\ before' = Lexer(pos, token_start, state)
    /\ calls' = calls + 1
    /\ UNCHANGED <<input, out, pc, line_starts, probe>>
    /\ UNCHANGED processVars

Next == NextToken

Spec == Init /\ [][Next]_vars

(***************************************************************************)
(* lex_all of tests/lexer.rs: a full scan that pushes every token and      *)
(* stops after pushing Eof; a failed call panics (expect).                 *)
(***************************************************************************)
InitScan ==
    /\ input \in Inputs
    /\ pos = 0
    /\ token_start = 0
    /\ state = "Start"
    /\ result = NoResult
    /\ before = Lexer(0, 0, "Start")
    /\ tokens = <<>>
    /\ calls = 0
    /\ out = <<>>
    /\ pc = "loop"
    /\ line_starts = compute_line_starts(input)
    /\ Idle

lex_all_BreakBeforePush ==
    /\ pc = "loop"
    /\ LET r == next_token(input, Lexer(pos, token_start, state)) IN
       /\ pos' = r.lexer.pos
       /\ token_start' = r.lexer.token_start
       /\ state' = r.lexer.state
       /\ result' = r.value
       /\ tokens' = IF r.value.tag = "Ok" THEN Append(tokens, r.value) ELSE tokens
       /\ out' = IF r.value.tag = "Ok" /\ r.value.kind # "Eof" THEN Append(out, r.value) ELSE out
       /\ pc' = IF r.value.tag = "Err" THEN "panic"
                ELSE IF r.value.kind = "Eof" THEN "done" ELSE "loop"
    /\ before' = Lexer(pos, token_start, state)
    /\ calls' = calls + 1
    /\ UNCHANGED <<input, line_starts, probe>>
    /\ UNCHANGED processVars

lex_all ==
    /\ pc = "loop"
    /\ LET r == next_token(input, Lexer(pos, token_start, state)) IN
       /\ pos' = r.lexer.pos
       /\ token_start' = r.lexer.token_start
       /\ state' = r.lexer.state
       /\ result' = r.value
       /\ tokens' = IF r.value.tag = "Ok" THEN Append(tokens, r.value) ELSE tokens
       /\ out' = IF r.value.tag = "Ok" THEN Append(out, r.value) ELSE out
       /\ pc' = IF r.value.tag = "Err" THEN "panic"
                ELSE IF r.value.kind = "Eof" THEN "done" ELSE "loop"
    /\ before' = Lexer(pos, token_start, state)
    /\ calls' = calls + 1
    /\ UNCHANGED <<input, line_starts, probe>>
    /\ UNCHANGED processVars

NextScan == lex_all

ScanSpec == InitScan /\ [][NextScan]_vars

(***************************************************************************)
(* Properties of the token stream.                                         *)
(***************************************************************************)

\* C1: for every pair of tokens a then b returned by successive successful
\* calls of next_token on the same lexer, a.span.end <= b.span.start.
C1_Monotonic ==
    \A i \in 1..(Len(tokens) - 1) : tokens[i].span.end <= tokens[i + 1].span.start

C1_Witness ==
    /\ Len(tokens) >= 2
    /\ calls > Len(tokens)
    /\ tokens[2].kind # "Eof"
    /\ tokens[1].span.end < tokens[2].span.start

\* C2: every token returned whose kind is not Eof has span.start < span.end,
\* and every Eof token has span.start = span.end = len(text) in bytes.
C2_Spans ==
    \A i \in 1..Len(tokens) :
        IF tokens[i].kind = "Eof"
        THEN tokens[i].span.start = Len(input) /\ tokens[i].span.end = Len(input)
        ELSE tokens[i].span.start < tokens[i].span.end

C2_Witness ==
    /\ Len(tokens) >= 3
    /\ tokens[1].kind = "Less"
    /\ tokens[2].kind = "Identifier"
    /\ tokens[3].kind = "Eof"
    /\ Len(input) > 2

\* C3: once next_token has returned Eof, every later call returns Eof again
\* with the same empty span, never an error or another token, and leaves the
\* cursor position unchanged.
C3_EofTerminal ==
    [][(result.tag = "Ok" /\ result.kind = "Eof") => (result' = result /\ pos' = pos)]_vars

C3_Witness ==
    /\ Len(tokens) >= 3
    /\ tokens[Len(tokens)].kind = "Eof"
    /\ tokens[Len(tokens) - 1].kind = "Eof"
    /\ tokens[1].kind # "Eof"

\* C4: a full scan (calling next_token until the first Eof is observed) of an
\* input that lexes without error produces exactly one Eof token, and it is
\* the last token of the stream.
C4_OneEofLast ==
    /\ pc = "done" =>
          /\ Len(out) >= 1
          /\ out[Len(out)].kind = "Eof"
          /\ \A i \in 1..(Len(out) - 1) : out[i].kind # "Eof"
    /\ pc # "done" => \A i \in 1..Len(out) : out[i].kind # "Eof"

C4_Witness ==
    /\ pc = "done"
    /\ Len(out) >= 4

(***************************************************************************)
(* A client of SourceFile: load the file, then query positions.            *)
(***************************************************************************)
InitSource ==
    /\ file \in Files
    /\ input = <<>>
    /\ line_starts = <<>>
    /\ pc = "load"
    /\ pos = 0
    /\ token_start = 0
    /\ state = "Start"
    /\ result = NoResult
    /\ before = Lexer(0, 0, "Start")
    /\ tokens = <<>>
    /\ calls = 0
    /\ out = <<>>
    /\ cli = [input |-> InputPath, output |-> Nothing]
    /\ disk = [p \in OutputPaths |-> Absent]
    /\ report = Nothing
    /\ stderr = <<>>
    /\ status = "running"
    /\ probe = NoProbe

SourceFile_load ==
    /\ pc = "load"
    /\ LET r == load(cli.input, file) IN
       IF r.ok
       THEN /\ input' = r.text
            /\ line_starts' = r.line_starts
            /\ pc' = "loaded"
            /\ probe' = [fn |-> "load", arg |-> 0, ret |-> <<"Ok">>]
       ELSE /\ pc' = "failed"
            /\ probe' = [fn |-> "load", arg |-> 0, ret |-> <<r.error.kind>>]
            /\ UNCHANGED <<input, line_starts>>
    /\ UNCHANGED <<out>>
    /\ UNCHANGED lexerVars
    /\ UNCHANGED processVars

SourceFile_line_col ==
    /\ pc = "loaded"
    /\ \E byte_offset \in 0..(Len(input) + MaxPast) :
          probe' = [fn |-> "line_col", arg |-> byte_offset, ret |-> line_col(line_starts, byte_offset)]
    /\ UNCHANGED <<input, line_starts, out, pc>>
    /\ UNCHANGED lexerVars
    /\ UNCHANGED processVars

SourceFile_line_text ==
    /\ pc = "loaded"
    /\ \E line_1based \in 0..(Len(line_starts) + MaxPast) :
          probe' = [fn |-> "line_text", arg |-> line_1based,
                    ret |-> line_text(input, line_starts, line_1based)]
    /\ UNCHANGED <<input, line_starts, out, pc>>
    /\ UNCHANGED lexerVars
    /\ UNCHANGED processVars

SourceFile_span_whole ==
    /\ pc = "loaded"
    /\ probe' = [fn |-> "span_whole", arg |-> 0, ret |-> <<span_whole(input)>>]
    /\ UNCHANGED <<input, line_starts, out, pc>>
    /\ UNCHANGED lexerVars
    /\ UNCHANGED processVars

NextSource ==
    \/ SourceFile_load
    \/ SourceFile_line_col
    \/ SourceFile_line_text
    \/ SourceFile_span_whole

SourceSpec == InitSource /\ [][NextSource]_vars

(***************************************************************************)
(* A client of Report: build a Report with one of its constructors, then   *)
(* print it as main does.                                                  *)
(***************************************************************************)
RenderTexts == { <<>>, CrLfA, <<10, 73, 10>> }

Diagnostics(text) ==
    { Diagnostic(sev, StrEmptyInput, span, note) :
        sev \in {"Error", "Warning", "Note"},
        span \in {Nothing} \cup { Some(Span(s, s)) : s \in 0..Len(text) },
        note \in {Nothing, Some(StrEmptyNote)} }

CompilerErrors ==
    { [kind |-> k, path |-> p] : k \in {"Io", "Encoding"}, p \in {InputPath, CustomPath} }

InitRender ==
    /\ input = <<>>
    /\ line_starts = <<0>>
    /\ pc = "construct"
    /\ pos = 0
    /\ token_start = 0
    /\ state = "Start"
    /\ result = NoResult
    /\ before = Lexer(0, 0, "Start")
    /\ tokens = <<>>
    /\ calls = 0
    /\ out = <<>>
    /\ Idle

Construct_new ==
    /\ pc = "construct"
    /\ \E text \in RenderTexts :
          /\ input' = text
          /\ line_starts' = compute_line_starts(text)
          /\ file' = Present(text)
          /\ \E n \in 0..MaxDiags : \E ds \in [1..n -> Diagnostics(text)] :
                report' = Some(Report_new(SourceFile(InputPath, text, compute_line_starts(text)), ds))
    /\ probe' = [fn |-> "Report::new", arg |-> 0, ret |-> <<>>]
    /\ pc' = "built"
    /\ UNCHANGED <<out, cli, disk, stderr, status>>
    /\ UNCHANGED lexerVars

Construct_from ==
    /\ pc = "construct"
    /\ \E err \in CompilerErrors : report' = Some(Report_from(err))
    /\ probe' = [fn |-> "Report::from", arg |-> 0, ret |-> <<>>]
    /\ pc' = "built"
    /\ UNCHANGED <<input, line_starts, out, file, cli, disk, stderr, status>>
    /\ UNCHANGED lexerVars

\* impl From<CompilerError> for Report
Construct_into ==
    /\ pc = "construct"
    /\ \E value \in CompilerErrors : report' = Some(Report_from(value))
    /\ probe' = [fn |-> "From::from", arg |-> 0, ret |-> <<>>]
    /\ pc' = "built"
    /\ UNCHANGED <<input, line_starts, out, file, cli, disk, stderr, status>>
    /\ UNCHANGED lexerVars

Render ==
    /\ pc = "built"
    /\ stderr' = eprintln(report[1])
    /\ pc' = "printed"
    /\ UNCHANGED <<input, line_starts, out, file, cli, disk, report, status, probe>>
    /\ UNCHANGED lexerVars

NextRender ==
    \/ Construct_new
    \/ Construct_from
    \/ Construct_into
    \/ Render

RenderSpec == InitRender /\ [][NextRender]_vars

(***************************************************************************)
(* The compiler process: main calls driver::run on the parsed arguments,   *)
(* prints the Report of a failed run and exits (src/src/main.rs,           *)
(* src/src/driver.rs).                                                     *)
(***************************************************************************)
\* char::is_whitespace (the Unicode White_Space property)
is_whitespace(ch) ==
    \/ ch >= 9 /\ ch <= 13
    \/ ch \in {32, 133, 160, 5760, 8232, 8233, 8239, 8287, 12288}
    \/ ch >= 8192 /\ ch <= 8202

\* str::trim(..).is_empty(): every character from offset p on is white space.
RECURSIVE trim_is_empty(_, _)
trim_is_empty(text, p) ==
    LET ch == peek_char(text, p) IN
    IF ch = None THEN TRUE
    ELSE is_whitespace(ch) /\ trim_is_empty(text, bump_char(text, p))

default_output_path(path) == Path(path.stem, StrBin)

\* cli.output.unwrap_or_else(|| default_output_path(&cli.input))
output_path(c) == IF c.output = Nothing THEN default_output_path(c.input) ELSE c.output[1]

OldOutput == Present(<<111, 108, 100>>)

DriverFiles ==
    {Absent} \cup
    { Present(b) : b \in NamedInputs \cup InvalidUtf8
                         \cup UNION { { Flatten(ss) : ss \in [1..n -> Pieces] } : n \in 0..MaxFilePieces } }

InitDriver ==
    /\ file \in DriverFiles
    /\ cli \in { [input |-> InputPath, output |-> o] : o \in {Nothing, Some(CustomPath)} }
    /\ disk \in { [p \in OutputPaths |-> f] : f \in {Absent, OldOutput} }
    /\ input = <<>>
    /\ line_starts = <<>>
    /\ pc = "load"
    /\ pos = 0
    /\ token_start = 0
    /\ state = "Start"
    /\ result = NoResult
    /\ before = Lexer(0, 0, "Start")
    /\ tokens = <<>>
    /\ calls = 0
    /\ out = <<>>
    /\ report = Nothing
    /\ stderr = <<>>
    /\ status = "running"
    /\ probe = NoProbe

run_load_SkipsEmptyCheck ==
    /\ pc = "load"
    /\ LET r == load(cli.input, file) IN
       IF ~r.ok
       THEN /\ report' = Some(Report_from(r.error))
            /\ pc' = "returned"
            /\ UNCHANGED <<input, line_starts>>
       ELSE /\ input' = r.text
            /\ line_starts' = r.line_starts
            /\ IF FALSE
               THEN /\ report' = Some(Report_new(SourceFile(r.path, r.text, r.line_starts),
                                        << Diagnostic("Error", StrEmptyInput,
                                                      Some(span_whole(r.text)), Some(StrEmptyNote)) >>))
                    /\ pc' = "returned"
               ELSE /\ report' = Nothing
                    /\ pc' = "lex"
    /\ UNCHANGED <<out, file, cli, disk, stderr, status, probe>>
    /\ UNCHANGED lexerVars

\* run, steps 1 to 3 and Lexer::new: load the input, reject an empty one.
run_load ==
    /\ pc = "load"
    /\ LET r == load(cli.input, file) IN
       IF ~r.ok
       THEN /\ report' = Some(Report_from(r.error))
            /\ pc' = "returned"
            /\ UNCHANGED <<input, line_starts>>
       ELSE /\ input' = r.text
            /\ line_starts' = r.line_starts
            /\ IF trim_is_empty(r.text, 0)
               THEN /\ report' = Some(Report_new(SourceFile(r.path, r.text, r.line_starts),
                                        << Diagnostic("Error", StrEmptyInput,
                                                      Some(span_whole(r.text)), Some(StrEmptyNote)) >>))
                    /\ pc' = "returned"
               ELSE /\ report' = Nothing
                    /\ pc' = "lex"
    /\ UNCHANGED <<out, file, cli, disk, stderr, status, probe>>
    /\ UNCHANGED lexerVars

run_lex_Continues ==
    /\ pc = "lex"
    /\ LET r == next_token(input, Lexer(pos, token_start, state)) IN
       /\ pos' = r.lexer.pos
       /\ token_start' = r.lexer.token_start
       /\ state' = r.lexer.state
       /\ result' = r.value
       /\ tokens' = IF r.value.tag = "Ok" THEN Append(tokens, r.value) ELSE tokens
       /\ IF r.value.tag = "Err"
          THEN /\ report' = Some(Report_new(SourceFile(cli.input, input, line_starts),
                                   << Diagnostic("Error", LexError_message(r.value),
                                                 Some(r.value.span), Nothing) >>))
               /\ pc' = "lex"
               /\ out' = out
          ELSE IF r.value.kind = "Eof"
          THEN /\ pc' = "write"
               /\ UNCHANGED <<report, out>>
          ELSE /\ out' = Append(out, r.value)
               /\ UNCHANGED <<report, pc>>
    /\ before' = Lexer(pos, token_start, state)
    /\ calls' = calls + 1
    /\ UNCHANGED <<input, line_starts, file, cli, disk, stderr, status, probe>>

run_lex_ErrorFallsThrough ==
    /\ pc = "lex"
    /\ LET r == next_token(input, Lexer(pos, token_start, state)) IN
       /\ pos' = r.lexer.pos
       /\ token_start' = r.lexer.token_start
       /\ state' = r.lexer.state
       /\ result' = r.value
       /\ tokens' = IF r.value.tag = "Ok" THEN Append(tokens, r.value) ELSE tokens
       /\ IF r.value.tag = "Err"
          THEN /\ report' = Some(Report_new(SourceFile(cli.input, input, line_starts),
                                   << Diagnostic("Error", LexError_message(r.value),
                                                 Some(r.value.span), Nothing) >>))
               /\ pc' = "write"
               /\ out' = out
          ELSE IF r.value.kind = "Eof"
          THEN /\ pc' = "write"
               /\ UNCHANGED <<report, out>>
          ELSE /\ out' = Append(out, r.value)
               /\ UNCHANGED <<report, pc>>
    /\ before' = Lexer(pos, token_start, state)
    /\ calls' = calls + 1
    /\ UNCHANGED <<input, line_starts, file, cli, disk, stderr, status, probe>>

\* run, step 4: one iteration of the lexing loop.
run_lex ==
    /\ pc = "lex"
    /\ LET r == next_token(input, Lexer(pos, token_start, state)) IN
       /\ pos' = r.lexer.pos
       /\ token_start' = r.lexer.token_start
       /\ state' = r.lexer.state
       /\ result' = r.value
       /\ tokens' = IF r.value.tag = "Ok" THEN Append(tokens, r.value) ELSE tokens
       /\ IF r.value.tag = "Err"
          THEN /\ report' = Some(Report_new(SourceFile(cli.input, input, line_starts),
                                   << Diagnostic("Error", LexError_message(r.value),
                                                 Some(r.value.span), Nothing) >>))
               /\ pc' = "returned"
               /\ out' = out
          ELSE IF r.value.kind = "Eof"
          THEN /\ pc' = "write"
               /\ UNCHANGED <<report, out>>
          ELSE /\ out' = Append(out, r.value)
               /\ UNCHANGED <<report, pc>>
    /\ before' = Lexer(pos, token_start, state)
    /\ calls' = calls + 1
    /\ UNCHANGED <<input, line_starts, file, cli, disk, stderr, status, probe>>

\* run, step 5: std::fs::write(&output, b"") succeeds.
run_write ==
    /\ pc = "write"
    /\ disk' = [disk EXCEPT ![output_path(cli)] = Present(<<>>)]
    /\ pc' = "returned"
    /\ UNCHANGED <<input, line_starts, out, file, cli, report, stderr, status, probe>>
    /\ UNCHANGED lexerVars

\* run, step 5: std::fs::write(&output, b"") fails to create the file.
run_write_fails ==
    /\ pc = "write"
    /\ report' = Some(Report_from([kind |-> "Io", path |-> output_path(cli)]))
    /\ pc' = "returned"
    /\ UNCHANGED <<input, line_starts, out, file, cli, disk, stderr, status, probe>>
    /\ UNCHANGED lexerVars

\* main: print the Report of a failed run and exit with status 1.
main ==
    /\ pc = "returned"
    /\ IF report # Nothing
       THEN stderr' = eprintln(report[1]) /\ status' = "failure"
       ELSE stderr' = stderr /\ status' = "success"
    /\ pc' = "exited"
    /\ UNCHANGED <<input, line_starts, out, file, cli, disk, report, probe>>
    /\ UNCHANGED lexerVars

NextDriver ==
    \/ run_load
    \/ run_lex
    \/ run_write
    \/ run_write_fails
    \/ main

DriverSpec == InitDriver /\ [][NextDriver]_vars

(***************************************************************************)
(* The text as the claims describe it, byte by byte.                       *)
(***************************************************************************)
ByteAt(text, p) == text[p + 1]

IsWsByte(b) == b = 32 \/ b = 9 \/ b = 10 \/ b = 12 \/ b = 13

IsDigitByte(b) == b \in 48..57

IsLetterByte(b) == b \in 65..90 \/ b \in 97..122

IsIdentByte(b) == IsLetterByte(b) \/ IsDigitByte(b) \/ b = 95

\* The width in bytes of the character whose first byte is b.
Utf8Width(b) == IF b < 128 THEN 1 ELSE IF b < 224 THEN 2 ELSE IF b < 240 THEN 3 ELSE 4

\* The first offset at or after p that does not hold ASCII whitespace.
FirstNonWs(text, p) ==
    CHOOSE q \in p..Len(text) :
        /\ \A k \in p..(q - 1) : IsWsByte(ByteAt(text, k))
        /\ q = Len(text) \/ ~IsWsByte(ByteAt(text, q))

\* The end of the maximal run of ASCII digits that starts at s.
DigitRunEnd(text, s) ==
    CHOOSE e \in s..Len(text) :
        /\ \A k \in s..(e - 1) : IsDigitByte(ByteAt(text, k))
        /\ e = Len(text) \/ ~IsDigitByte(ByteAt(text, e))

\* The end of the maximal run of identifier characters that starts at s.
IdentRunEnd(text, s) ==
    CHOOSE e \in s..Len(text) :
        /\ \A k \in s..(e - 1) : IsIdentByte(ByteAt(text, k))
        /\ e = Len(text) \/ ~IsIdentByte(ByteAt(text, e))

RECURSIVE StripZeros(_)
StripZeros(d) == IF Len(d) > 1 /\ Head(d) = 0 THEN StripZeros(Tail(d)) ELSE d

\* The base-10 value of the digits in text[s..e), as a canonical digit sequence.
DecimalValue(text, s, e) == StripZeros([i \in 1..(e - s) |-> ByteAt(text, s + i - 1) - 48])

\* v <= 2^63 - 1 = 9223372036854775807.
FitsI64(v) ==
    \/ Len(v) < 19
    \/ /\ Len(v) = 19
       /\ ~\E i \in 1..19 : v[i] > I64Max[i] /\ \A j \in 1..(i - 1) : v[j] = I64Max[j]

AllWs(text, s, e) == \A k \in s..(e - 1) : IsWsByte(ByteAt(text, k))

\* C5: when the first non-whitespace character at the cursor is not an ASCII
\* digit, not an ASCII letter, not '_' and not '<', next_token fails with an
\* 'Unexpected character' error whose span covers exactly that character (all
\* the bytes of its code point), and the cursor is past that character.
C5_UnexpectedCharacter ==
    calls > 0 =>
        LET p == FirstNonWs(input, before.pos) IN
        (/\ p < Len(input)
         /\ ~IsDigitByte(ByteAt(input, p))
         /\ ~IsLetterByte(ByteAt(input, p))
         /\ ByteAt(input, p) # 95
         /\ ByteAt(input, p) # 60)
        => /\ result.tag = "Err"
           /\ result.kind = "UnexpectedCharacter"
           /\ result.span = Span(p, p + Utf8Width(ByteAt(input, p)))
           /\ pos = p + Utf8Width(ByteAt(input, p))

\* The statement of C5 for the calls that enter next_token in state Start.
C5_FromStart == before.state = "Start" => C5_UnexpectedCharacter

\* C6: for a maximal run of ASCII digits starting at token_start, next_token
\* returns Number(v), v the base-10 value of the run, exactly when that value
\* is <= 2^63-1, and otherwise fails with 'Invalid integer literal' whose span
\* is the whole run; no Number token carries a wrapped or saturated value.
C6_NumberOrOverflow ==
    /\ (calls > 0 /\ token_start < Len(input) /\ IsDigitByte(ByteAt(input, token_start))) =>
          LET e == DigitRunEnd(input, token_start)
              v == DecimalValue(input, token_start, e)
          IN  IF FitsI64(v)
              THEN result = Ok("Number", v, Span(token_start, e))
              ELSE result = Err("InvalidIntegerLiteral", <<>>, Span(token_start, e))
    /\ \A i \in 1..Len(tokens) :
          tokens[i].kind = "Number" =>
              /\ tokens[i].payload = DecimalValue(input, tokens[i].span.start, tokens[i].span.end)
              /\ FitsI64(tokens[i].payload)
    /\ result.kind = "InvalidIntegerLiteral" =>
          ~FitsI64(DecimalValue(input, result.span.start, result.span.end))

C6_Witness ==
    /\ result.kind = "InvalidIntegerLiteral"
    /\ Len(tokens) >= 1
    /\ tokens[1].kind = "Number"
    /\ tokens[1].payload = I64Max

\* C7: a maximal run of identifier characters yields KeywordIf exactly when the
\* whole run is "IF" in any ASCII case, and otherwise one Identifier token
\* carrying the run's text unchanged; "IFX" is one Identifier("IFX").
IfSpellings == { <<73, 70>>, <<105, 102>>, <<73, 102>>, <<105, 70>> }

C7_KeywordWholeRun ==
    /\ (calls > 0 /\ token_start < Len(input)
        /\ (IsLetterByte(ByteAt(input, token_start)) \/ ByteAt(input, token_start) = 95)) =>
          LET e == IdentRunEnd(input, token_start)
              run == SubSeq(input, token_start + 1, e)
          IN  IF run \in IfSpellings
              THEN result = Ok("KeywordIf", <<>>, Span(token_start, e))
              ELSE result = Ok("Identifier", run, Span(token_start, e))
    /\ (input = Ifx /\ calls >= 2) =>
          SubSeq(tokens, 1, 2) = << Ok("Identifier", Ifx, Span(0, 3)), Ok("Eof", <<>>, Span(3, 3)) >>

C7_Witness ==
    /\ input = KeywordMix
    /\ calls = 3
    /\ tokens = << Ok("KeywordIf", <<>>, Span(0, 2)),
                   Ok("Identifier", Ifx, Span(3, 6)),
                   Ok("KeywordIf", <<>>, Span(7, 9)) >>

\* C8: number and identifier tokens are longest matches: the byte right after
\* a Number token is never a digit, the byte right after an Identifier or
\* KeywordIf token is never a letter, digit or '_'; "12a" gives Number(12),
\* Identifier("a"), Eof and "a<10" gives Identifier("a"), Less, Number(10), Eof.
C8_LongestMatch ==
    /\ \A i \in 1..Len(tokens) :
          LET t == tokens[i] IN
          /\ t.kind = "Number" =>
                (t.span.end = Len(input) \/ ~IsDigitByte(ByteAt(input, t.span.end)))
          /\ t.kind \in {"Identifier", "KeywordIf"} =>
                (t.span.end = Len(input) \/ ~IsIdentByte(ByteAt(input, t.span.end)))
    /\ (input = TwelveA /\ calls >= 3) =>
          SubSeq(tokens, 1, 3) = << Ok("Number", <<1, 2>>, Span(0, 2)),
                                    Ok("Identifier", <<97>>, Span(2, 3)),
                                    Ok("Eof", <<>>, Span(3, 3)) >>
    /\ (input = ALessTen /\ calls >= 4) =>
          SubSeq(tokens, 1, 4) = << Ok("Identifier", <<97>>, Span(0, 1)),
                                    Ok("Less", <<>>, Span(1, 2)),
                                    Ok("Number", <<1, 0>>, Span(2, 4)),
                                    Ok("Eof", <<>>, Span(4, 4)) >>

C8_Witness ==
    /\ input = TwelveA
    /\ calls = 3
    /\ Len(tokens) = 3
    /\ tokens[3].kind = "Eof"

\* C9: when the first non-whitespace character is '<', next_token returns
\* LessEqual with a 2-byte span if and only if the byte right after the '<' is
\* '=', and otherwise Less with a 1-byte span covering only the '<'.
C9_LessOrLessEqual ==
    calls > 0 =>
        LET p == FirstNonWs(input, before.pos) IN
        (p < Len(input) /\ ByteAt(input, p) = 60) =>
            IF p + 1 < Len(input) /\ ByteAt(input, p + 1) = 61
            THEN result = Ok("LessEqual", <<>>, Span(p, p + 2)) /\ pos = p + 2
            ELSE result = Ok("Less", <<>>, Span(p, p + 1)) /\ pos = p + 1

\* The statement of C9 for the calls that enter next_token in state Start.
C9_FromStart == before.state = "Start" => C9_LessOrLessEqual

\* The golden token stream of "IF a<=10\r\nIF b<2".
GoldenTokens ==
    << Ok("KeywordIf", <<>>, Span(0, 2)),
       Ok("Identifier", <<97>>, Span(3, 4)),
       Ok("LessEqual", <<>>, Span(4, 6)),
       Ok("Number", <<1, 0>>, Span(6, 8)),
       Ok("KeywordIf", <<>>, Span(10, 12)),
       Ok("Identifier", <<98>>, Span(13, 14)),
       Ok("Less", <<>>, Span(14, 15)),
       Ok("Number", <<2>>, Span(15, 16)),
       Ok("Eof", <<>>, Span(16, 16)) >>

\* Each token's span is [token_start, final cursor), and token_start is the
\* first byte at or after the previous cursor that is not ASCII whitespace.
SpanIsConsumedRange ==
    result.tag = "Ok" =>
        /\ token_start = FirstNonWs(input, before.pos)
        /\ result.span = Span(token_start, pos)

GoldenStream == (input = Golden /\ calls >= 9) => SubSeq(tokens, 1, 9) = GoldenTokens

\* C10 as stated: each token's span is the byte range [token_start, final
\* cursor) consumed for it, token_start being the first non-whitespace byte at
\* or after the previous cursor; every byte between the spans of two
\* consecutive tokens, and before the first token, is ASCII whitespace; the
\* golden text gives the golden stream.
C10_Original ==
    /\ SpanIsConsumedRange
    /\ Len(tokens) >= 1 => AllWs(input, 0, tokens[1].span.start)
    /\ \A i \in 1..(Len(tokens) - 1) : AllWs(input, tokens[i].span.end, tokens[i + 1].span.start)
    /\ GoldenStream

\* C10 (amended): each token's span is the byte range [token_start, final
\* cursor) consumed for it, token_start being the first non-whitespace byte at
\* or after the previous cursor; every byte between the spans of two tokens
\* returned by consecutive calls, and before a token returned by the first
\* call, is ASCII whitespace; the golden text gives the golden stream.
C10_SpansAndGaps ==
    /\ [](/\ SpanIsConsumedRange
          /\ (calls = 1 /\ result.tag = "Ok") => AllWs(input, 0, result.span.start)
          /\ GoldenStream)
    /\ [][(result.tag = "Ok" /\ result'.tag = "Ok")
            => AllWs(input, result.span.end, result'.span.start)]_vars

C10_Witness ==
    /\ input = Golden
    /\ calls = 9
    /\ tokens = GoldenTokens

(***************************************************************************)
(* Properties of the position index.                                       *)
(***************************************************************************)
\* The number of '\n' bytes among the first n bytes of text.
NewlinesBefore(text, n) == Cardinality({ k \in 1..n : text[k] = 10 })

\* The offset right after the last '\n' among the first n bytes, 0 if none.
LastLineStart(text, n) ==
    IF \E k \in 1..n : text[k] = 10
    THEN CHOOSE k \in 1..n : text[k] = 10 /\ \A j \in (k + 1)..n : text[j] # 10
    ELSE 0

\* The index (0-based) of the greatest line start <= offset.
GreatestStart(starts, offset) ==
    CHOOSE i \in 0..(Len(starts) - 1) :
        /\ starts[i + 1] <= offset
        /\ \A j \in 0..(Len(starts) - 1) : starts[j + 1] <= offset => j <= i

\* C14: for every offset in [0, len(text)], line_col(offset) is
\* (i+1, offset - line_starts[i] + 1), i the index of the greatest line start
\* <= offset, which is (1 + number of '\n' before offset, 1 + bytes since the
\* last such '\n'); for "IF\r\nA" offset 4 maps to (2,1); an offset past the
\* end gives the last line and a column past its last character.
C14_LineCol ==
    probe.fn = "line_col" =>
        LET offset == probe.arg
            i == GreatestStart(line_starts, offset)
        IN  /\ offset <= Len(input) =>
                 /\ probe.ret = <<i + 1, offset - line_starts[i + 1] + 1>>
                 /\ probe.ret = <<1 + NewlinesBefore(input, offset),
                                  1 + (offset - LastLineStart(input, offset))>>
            /\ (input = CrLfA /\ offset = 4) => probe.ret = <<2, 1>>
            /\ offset > Len(input) =>
                 /\ probe.ret[1] = Len(line_starts)
                 /\ probe.ret[2] = offset - line_starts[Len(line_starts)] + 1
                 /\ probe.ret[2] > Len(input) - line_starts[Len(line_starts)] + 1

C14_Witness ==
    /\ input = CrLfA
    /\ probe = [fn |-> "line_col", arg |-> 4, ret |-> <<2, 1>>]

\* C15: line_starts[0] = 0, line_starts is strictly increasing, its length is
\* 1 + the number of '\n' bytes, and every entry after the first is the offset
\* right after a '\n' byte (so every entry is <= len(text)).
C15_LineStarts ==
    pc = "loaded" =>
        /\ Len(line_starts) >= 1
        /\ line_starts[1] = 0
        /\ \A k \in 1..(Len(line_starts) - 1) : line_starts[k] < line_starts[k + 1]
        /\ Len(line_starts) = 1 + NewlinesBefore(input, Len(input))
        /\ \A k \in 2..Len(line_starts) :
              /\ line_starts[k] >= 1
              /\ line_starts[k] <= Len(input)
              /\ input[line_starts[k]] = 10

C15_Witness ==
    /\ pc = "loaded"
    /\ Len(line_starts) >= 3
    /\ line_starts[3] > line_starts[2] + 1

\* The text of every line, in order.
AllLines(text, starts) == [n \in 1..Len(starts) |-> line_text(text, starts, n)]

\* C16: line_text(n) is nothing for n = 0 and for n > line_starts.len(); for
\* 1 <= n <= line_starts.len() it is the slice from line_starts[n-1] up to
\* line_starts[n] (len(text) for the last line), trailing '\n' included; the
\* lines for n = 1..line_starts.len() concatenate to the whole text.
C16_LineText ==
    /\ probe.fn = "line_text" =>
          LET n == probe.arg IN
          IF n = 0 \/ n > Len(line_starts) THEN probe.ret = <<>>
          ELSE LET s == line_starts[n]
                   e == IF n < Len(line_starts) THEN line_starts[n + 1] ELSE Len(input)
               IN  /\ probe.ret = << SubSeq(input, s + 1, e) >>
                   /\ n < Len(line_starts) =>
                         /\ Len(probe.ret[1]) >= 1
                         /\ probe.ret[1][Len(probe.ret[1])] = 10
    /\ pc = "loaded" =>
          /\ \A n \in 1..Len(line_starts) : Len(AllLines(input, line_starts)[n]) = 1
          /\ Flatten([n \in 1..Len(line_starts) |-> AllLines(input, line_starts)[n][1]]) = input

C16_Witness ==
    /\ probe.fn = "line_text"
    /\ probe.arg = 2
    /\ Len(line_starts) >= 3
    /\ Len(probe.ret) = 1
    /\ Len(probe.ret[1]) >= 2

(***************************************************************************)
(* Properties of Report and of its rendering.                              *)
(***************************************************************************)
IsFatalShape(r) == r.fatal # <<>> /\ r.source = <<>> /\ r.diagnostics = <<>>

IsDiagnosticsShape(r) == r.source # <<>> /\ r.fatal = <<>>

\* C17: every Report built through Report::new, Report::from or the
\* From<CompilerError> conversion is in exactly one of two shapes, fatal or
\* diagnostics; none has both a fatal error and a source, none has neither.
C17_ReportShapes ==
    report # <<>> =>
        LET r == report[1] IN
        /\ IsFatalShape(r) \/ IsDiagnosticsShape(r)
        /\ ~(IsFatalShape(r) /\ IsDiagnosticsShape(r))
        /\ ~(r.fatal # <<>> /\ r.source # <<>>)
        /\ ~(r.fatal = <<>> /\ r.source = <<>>)
        /\ probe.fn = "Report::new" => IsDiagnosticsShape(r)
        /\ probe.fn \in {"Report::from", "From::from"} => IsFatalShape(r)

C17_Witness ==
    /\ report # <<>>
    /\ probe.fn = "Report::new"
    /\ Len(report[1].diagnostics) = 2
    /\ pc = "printed"

Spaces(n) == [i \in 1..n |-> 32]

\* The decimal digits of n < 1000.
DecimalText(n) ==
    IF n < 10 THEN <<48 + n>>
    ELSE IF n < 100 THEN <<48 + (n \div 10), 48 + (n % 10)>>
    ELSE <<48 + (n \div 100), 48 + ((n \div 10) % 10), 48 + (n % 10)>>

Label(sev) == IF sev = "Error" THEN StrError ELSE IF sev = "Warning" THEN StrWarning ELSE StrNote

\* The lines C18 describes for one diagnostic.
ExpectedLines(src, d) ==
    LET header == << Label(d.severity) \o <<58, 32>> \o d.message >>
        block ==
            IF d.span = <<>> THEN <<>>
            ELSE LET lc == line_col(src.line_starts, d.span[1].start)
                     raw == line_text(src.text, src.line_starts, lc[1])[1]
                     stripped == IF raw # <<>> /\ raw[Len(raw)] = 10
                                 THEN SubSeq(raw, 1, Len(raw) - 1) ELSE raw
                     number == DecimalText(lc[1])
                 IN  << StrArrow \o display(src.path) \o <<58>> \o number \o <<58>> \o DecimalText(lc[2]),
                        <<32, 32, 32, 124>>,
                        Spaces(3 - Len(number)) \o number \o <<32, 124, 32>> \o stripped,
                        <<32, 32, 32, 124, 32>> \o Spaces(lc[2] - 1) \o <<94>> >>
        note == IF d.note = <<>> THEN <<>> ELSE << <<110, 111, 116, 101, 58, 32>> \o d.note[1] >>
    IN  header \o block \o note \o << <<>> >>

\* C18: a diagnostics-shaped Report is rendered diagnostic by diagnostic, in
\* the collected order: "<label>: <message>"; for a span the locator
\* "  --> <path>:<line>:<col>" with (line, col) = line_col(span.start), the
\* gutter "   |", the source line without its trailing newline after the
\* right-aligned line number and " | ", and a caret line with col-1 spaces
\* before one '^'; "note: <note>" for a note; then one blank line.
C18_Rendering ==
    (pc = "printed" /\ IsDiagnosticsShape(report[1])) =>
        LET r == report[1] IN
        stderr = Flatten([i \in 1..Len(r.diagnostics) |-> ExpectedLines(r.source[1], r.diagnostics[i])])
                 \o << <<>> >>

C18_Witness ==
    /\ pc = "printed"
    /\ IsDiagnosticsShape(report[1])
    /\ Len(report[1].diagnostics) = 2
    /\ report[1].diagnostics[1].severity = "Warning"
    /\ report[1].diagnostics[1].span = <<>>
    /\ report[1].diagnostics[2].severity = "Error"
    /\ report[1].diagnostics[2].note # <<>>
    /\ report[1].diagnostics[2].span = << Span(4, 4) >>
    /\ input = CrLfA
    /\ Len(stderr) = 10

(***************************************************************************)
(* Properties of the driver.                                               *)
(***************************************************************************)
\* C11: when next_token returns a LexError, run makes no further next_token
\* call and returns a diagnostics-shaped Report holding exactly one
\* Diagnostic: severity Error, the LexError's message, the LexError's span,
\* no note.
C11_StopsAtFirstError ==
    /\ [](result.tag = "Err" =>
            /\ pc \in {"returned", "exited"}
            /\ report # <<>>
            /\ IsDiagnosticsShape(report[1])
            /\ report[1].source[1].text = input
            /\ Len(report[1].diagnostics) = 1
            /\ report[1].diagnostics[1].severity = "Error"
            /\ report[1].diagnostics[1].message =
                  (IF result.kind = "UnexpectedCharacter"
                   THEN StrUnexpected \o result.payload ELSE StrInvalidInteger)
            /\ report[1].diagnostics[1].span = << result.span >>
            /\ report[1].diagnostics[1].note = <<>>)
    /\ [][result.tag = "Err" => (calls' = calls /\ result' = result /\ report' = report)]_vars

C11_Witness ==
    /\ pc = "exited"
    /\ result.tag = "Err"
    /\ result.kind = "InvalidIntegerLiteral"
    /\ calls = 2
    /\ status = "failure"

\* C12: for an empty input text, run returns, before any next_token call, a
\* diagnostics-shaped Report with exactly one Error diagnostic whose message
\* is "Input file is empty." and whose span is span_whole(), i.e. [0,0).
C12_EmptyInput ==
    (file.exists /\ file.bytes = <<>> /\ pc # "load") =>
        /\ report # <<>>
        /\ IsDiagnosticsShape(report[1])
        /\ Len(report[1].diagnostics) = 1
        /\ report[1].diagnostics[1].severity = "Error"
        /\ report[1].diagnostics[1].message = StrEmptyInput
        /\ report[1].diagnostics[1].span = << Span(0, 0) >>
        /\ report[1].diagnostics[1].span = << span_whole(report[1].source[1].text) >>
        /\ calls = 0
        /\ result = NoResult
        /\ pc \in {"returned", "exited"}

C12_Witness ==
    /\ file.exists
    /\ file.bytes = <<>>
    /\ pc = "exited"
    /\ status = "failure"
    /\ Len(stderr) = 8

\* C13: running the compiler on "MODULE Hello; END Hello.\n" succeeds and
\* writes an empty output file, at the input path with extension .bin without
\* --output and at the --output path with it.
C13_HelloCompiles ==
    (file.exists /\ file.bytes = Hello /\ pc = "exited") =>
        /\ status = "success"
        /\ report = <<>>
        /\ cli.output = <<>> => disk[Path(cli.input.stem, StrBin)] = Present(<<>>)
        /\ cli.output # <<>> => disk[cli.output[1]] = Present(<<>>)

\* C19: a fatal-shaped Report is rendered as the single line
\* "error: <fatal message>", with no locator, gutter, source line, caret or
\* note; an input that is not valid UTF-8 always gives the fatal shape with
\* the 'not valid UTF-8' message, and is never lexed.
C19_FatalRendering ==
    /\ (pc = "exited" /\ report # <<>> /\ report[1].fatal # <<>>) =>
          /\ IsFatalShape(report[1])
          /\ stderr = << StrErrorPrefix
                         \o (IF report[1].fatal[1].kind = "Io" THEN StrIoError ELSE StrEncodingError)
                         \o display(report[1].fatal[1].path),
                         <<>> >>
    /\ (file.exists /\ file.bytes \in InvalidUtf8 /\ pc # "load") =>
          /\ report = << Report_from([kind |-> "Encoding", path |-> cli.input]) >>
          /\ calls = 0
          /\ result = NoResult
          /\ pc \in {"returned", "exited"}
    /\ (file.exists /\ file.bytes \notin InvalidUtf8 /\ report # <<>> /\ report[1].fatal # <<>>) =>
          report[1].fatal[1].kind = "Io"

C19_Witness ==
    /\ pc = "exited"
    /\ file = Present(<<255, 254, 255>>)
    /\ Len(stderr) = 2
    /\ status = "failure"

\* The scan has made at most len(text)+1 calls; while it loops no call has
\* failed or returned Eof, and once it has left the loop the last call did.
ScanBounded ==
    /\ calls <= Len(input) + 1
    /\ pc = "lex" => (result.tag # "Err" /\ \A i \in 1..Len(tokens) : tokens[i].kind # "Eof")
    /\ (pc \notin {"load", "lex"} /\ calls > 0) => (result.tag = "Err" \/ result.kind = "Eof")

\* C20: every call to next_token terminates, and the driver's scan loop
\* terminates on every finite input: it ends at the first LexError or at the
\* first Eof, after at most len(text)+1 calls to next_token.  Every iteration
\* of the loop is one call, and the number of calls is bounded, so the loop
\* cannot go on for ever.
C20_ScanTerminates ==
    /\ []ScanBounded
    /\ [][pc = "lex" => (calls' = calls + 1 /\ pc' \in {"lex", "write", "returned"})]_vars

C20_Witness ==
    /\ pc = "exited"
    /\ Len(input) >= 2
    /\ calls = Len(input) + 1
    /\ result.kind = "Eof"

\* The last call returned the Eof token.
ReturnedEof == result.tag = "Ok" /\ result.kind = "Eof"

\* C21: every call to next_token that returns anything other than Eof, a
\* token or a LexError of either kind, strictly advances the cursor and
\* leaves the lexer in state Start; hence a caller that keeps calling
\* next_token after errors has reached Eof once it has made len(text)+1
\* calls, also on a text with a digit run that overflows an i64.
C21_ErrorRecovery ==
    /\ (calls > 0 /\ ~ReturnedEof) => (pos > before.pos /\ state = "Start")
    /\ calls >= Len(input) + 1 => ReturnedEof

\* The statement of C21 for the calls that neither enter next_token in state
\* Number nor fail with 'Invalid integer literal'.
C21_ExceptOverflow ==
    (before.state = "Start" /\ result.kind # "InvalidIntegerLiteral") => C21_ErrorRecovery

\* The run has returned a Report before the scan observed Eof: loading failed,
\* the input was judged empty, or a call of next_token failed.
FailedBeforeWrite == pc \in {"returned", "exited"} /\ report # Nothing /\ ~ReturnedEof

\* No write to an output path has been performed: every path still holds what
\* it held when the process started.
DiskUntouched == disk \in { [p \in OutputPaths |-> f] : f \in {Absent, OldOutput} }

\* C22: run writes the output file only after the scan has observed Eof
\* without any error; whenever run returns a Report because loading failed,
\* the input was judged empty or a lexical error occurred, no write to the
\* output path has been performed (an existing output file is unchanged and
\* none is created).
C22_NoWriteOnFailure ==
    /\ [](FailedBeforeWrite => DiskUntouched)
    /\ [][disk' # disk => (ReturnedEof /\ report = Nothing /\ pc = "write"
                           /\ \A p \in OutputPaths \ {output_path(cli)} : disk'[p] = disk[p])]_vars

C22_Witness ==
    /\ pc = "exited"
    /\ result.tag = "Err"
    /\ report # Nothing
    /\ cli.output = Some(CustomPath)
    /\ disk[CustomPath] = OldOutput

\* The offset maps to a line that line_text finds, the line's start plus the
\* 0-based column is the offset again, and the column lies inside or just
\* past the line's text, with or without its trailing '\n'.
OffsetAgrees(text, starts, offset, printed) ==
    LET lc == line_col(starts, offset)
        lt == line_text(text, starts, lc[1])
    IN  /\ lt # Nothing
        /\ lc[1] \in 1..Len(starts)
        /\ str_get(text, starts[lc[1]], starts[lc[1]] + Len(lt[1])) = lt
        /\ starts[lc[1]] + (lc[2] - 1) = offset
        /\ lc[2] - 1 <= Len(IF printed THEN trim_end_matches(lt[1], 10) ELSE lt[1])

\* The spans of the diagnostics of the Report the run returned.
ReportedSpans ==
    IF report = Nothing \/ ~IsDiagnosticsShape(report[1]) THEN {}
    ELSE { report[1].diagnostics[i].span[1] :
             i \in { j \in 1..Len(report[1].diagnostics) : report[1].diagnostics[j].span # Nothing } }

\* C23: for every offset in [0, len(text)], with (l, c) = line_col(offset),
\* line_text(l) is present, line_starts[l-1] + (c-1) = offset and
\* c-1 <= len(line_text(l)); so for every span of a LexError or of span_whole
\* the renderer's lookup of the source line does not fall back to the empty
\* default, and the caret of the printed block is inside or just past the
\* bytes of the printed line.
C23_OffsetLineAgree ==
    line_starts # <<>> =>
        /\ \A offset \in 0..Len(input) : OffsetAgrees(input, line_starts, offset, FALSE)
        /\ \A span \in ReportedSpans \cup {span_whole(input)} :
              /\ span.start \in 0..Len(input)
              /\ OffsetAgrees(input, line_starts, span.start, TRUE)
        /\ (pc = "exited" /\ ReportedSpans # {}) =>
              /\ Len(stderr) >= 5
              /\ Len(stderr[5]) <= Len(stderr[4])

C23_Witness ==
    /\ pc = "exited"
    /\ result.tag = "Err"
    /\ ReportedSpans = {result.span}
    /\ LET lc == line_col(line_starts, result.span.start)
           lt == line_text(input, line_starts, lc[1])
       IN  /\ lc[2] >= 3
           /\ lt # Nothing
           /\ Len(trim_end_matches(lt[1], 10)) < Len(lt[1])

\* run has returned the "Input file is empty." Report.
JudgedEmpty ==
    /\ report # Nothing
    /\ IsDiagnosticsShape(report[1])
    /\ Len(report[1].diagnostics) = 1
    /\ report[1].diagnostics[1].message = StrEmptyInput

\* A lexer started on the loaded text returns Eof on its first call.
FirstCallEof == next_token(input, Lexer(0, 0, "Start")).value = Ok("Eof", <<>>, Span(Len(input), Len(input)))

\* The text was handed to Lexer::new and the lexing loop entered.
PassedToLexer == pc = "lex" \/ calls > 0

\* The text holds a character that is not Unicode White_Space.
RECURSIVE HasNonWhiteSpace(_, _)
HasNonWhiteSpace(text, p) ==
    LET ch == peek_char(text, p) IN
    ch # None /\ (~is_whitespace(ch) \/ HasNonWhiteSpace(text, bump_char(text, p)))

\* C24: the driver's empty-input check agrees with the lexer's notion of
\* whitespace: run reports "Input file is empty." exactly when a lexer started
\* on the same text would return Eof on its first call, that is exactly when
\* the text holds only characters the lexer skips as whitespace; a text
\* holding any character the lexer does not skip is passed to the lexer.
C24_EmptyCheckAgrees ==
    (pc # "load" /\ line_starts # <<>>) =>
        /\ JudgedEmpty <=> FirstCallEof
        /\ FirstCallEof <=> AllWs(input, 0, Len(input))
        /\ ~AllWs(input, 0, Len(input)) => PassedToLexer

\* What holds of the check: a text the lexer would answer with Eof at once is
\* reported empty, the report is made exactly for the texts of Unicode
\* White_Space only, and every other text is passed to the lexer.
C24_LexerEofIsEmpty ==
    (pc # "load" /\ line_starts # <<>>) =>
        /\ FirstCallEof => JudgedEmpty
        /\ FirstCallEof <=> AllWs(input, 0, Len(input))
        /\ JudgedEmpty <=> ~HasNonWhiteSpace(input, 0)
        /\ HasNonWhiteSpace(input, 0) <=> PassedToLexer

====
